---- MODULE Spec2Model ----
(***************************************************************************)
(* A model of the job-search route handler (webapp/src/app/api/search/     *)
(* route.ts): the POST handler with its provider call and its per-listing  *)
(* company lookups, the pure helpers extractContacts, formatSalary and     *)
(* formatPosted, and the search form that calls the route (JobSearchAgent).*)
(*                                                                         *)
(* JSON values are tagged records, so that `typeof`, `??` and truthiness   *)
(* are decided the way JavaScript decides them.  A string's value is the   *)
(* sequence of its characters (one-character strings); fixed messages and  *)
(* URL prefixes that the code never inspects are kept as one token.        *)
(***************************************************************************)
EXTENDS Integers, Sequences, FiniteSets, TLC

VARIABLES
    \* ---- one POST request ----
    body,         \* the request: [parse, jobProfile, location, rapidApiKey]
    envKey,       \* process.env.RAPIDAPI_KEY
    upstream,     \* what the search provider answers to this request's call
    pc,           \* "received" | "searching" | "enriching" | "done"
    searchCalls,  \* the calls made to the search provider, in order
    jobs,         \* `jobs`: the provider's listings (route.ts:415)
    tasks,        \* the promises of trimmedJobs.map(async ...), by index
    lookupCalls,  \* the fetchCompanyInsight calls made, in order
    response,     \* the NextResponse returned, or NoResponse
    \* ---- extractContacts applied to one raw listing ----
    cjob,         \* the raw listing
    contacts,     \* the returned JobContact[] (as Array), or Pending
    \* ---- formatSalary applied to one salary record ----
    sjob,         \* the raw listing (only job_salary matters)
    sout,         \* formatSalary's result, or Pending
    sprev,        \* the result for the same values under the primary names
    \* ---- formatPosted applied to one raw listing ----
    pjob,         \* the raw listing: its three posted-at fields
    pdate,        \* the instant the listing was posted, which the fields carry
    pnow,         \* the current instant, new Date()
    ptz,          \* the server's offset from UTC, in minutes
    pout,         \* formatPosted's result, or Pending
    \* ---- the search form (JobSearchAgent) ----
    floading,     \* the state `loading`
    ferror,       \* the state `error`: Null or a message
    fresults,     \* the state `results`
    fdisabled,    \* the submit button's disabled attribute, as last rendered
    frequests     \* the invocations of handleSubmit, in order

handlerVars == <<body, envKey, upstream, pc, searchCalls, jobs, tasks,
                 lookupCalls, response>>
contactVars == <<cjob, contacts>>
salaryVars  == <<sjob, sout, sprev>>
postedVars  == <<pjob, pdate, pnow, ptz, pout>>
formVars    == <<floading, ferror, fresults, fdisabled, frequests>>
vars == <<body, envKey, upstream, pc, searchCalls, jobs, tasks, lookupCalls,
          response, cjob, contacts, sjob, sout, sprev, pjob, pdate, pnow,
          ptz, pout, floading, ferror, fresults, fdisabled, frequests>>

(***************************************************************************)
(* Bounds of the model.                                                    *)
(***************************************************************************)
MaxListings == 13        \* longest provider list under SpecFanOut
MaxShortListings == 2    \* longest provider list under Spec and SpecHang
MaxLookupFailures == 1   \* company lookups that fail within one request
MaxTokens == 2           \* tokens a job description is assembled from
MaxSubmissions == 3      \* submissions of the search form (SpecForm)
HungLookup == 1          \* the listing whose lookup may never resolve (SpecHang)

(***************************************************************************)
(* JSON values.                                                            *)
(***************************************************************************)
Undefined == [t |-> "undefined"]
Null == [t |-> "null"]
Str(s) == [t |-> "string", v |-> s]
Num(n) == [t |-> "number", v |-> n]
Pending == [t |-> "pending"]
NoResponse == [t |-> "none"]

\* a ?? b
Coalesce(a, b) == IF a = Undefined \/ a = Null THEN b ELSE a

\* JavaScript truthiness of a JSON value
Truthy(a) ==
    CASE a.t = "undefined" -> FALSE
      [] a.t = "null" -> FALSE
      [] a.t = "string" -> a.v # <<>>
      [] a.t = "number" -> a.v # 0
      [] OTHER -> TRUE

(***************************************************************************)
(* Text: sequences of one-character strings.                               *)
(***************************************************************************)
Whitespace == {" ", "\t", "\n"}
LowerLetters == {"a", "b", "c", "d", "e", "f", "g", "h", "i", "j", "k", "l",
                 "m", "n", "o", "p", "q", "r", "s", "t", "u", "v", "w", "x",
                 "y", "z"}
DigitChars == {"0", "1", "2", "3", "4", "5", "6", "7", "8", "9"}

RECURSIVE TrimStart(_)
TrimStart(s) ==
    IF s # <<>> /\ Head(s) \in Whitespace THEN TrimStart(Tail(s)) ELSE s

RECURSIVE TrimEnd(_)
TrimEnd(s) ==
    IF s # <<>> /\ s[Len(s)] \in Whitespace
    THEN TrimEnd(SubSeq(s, 1, Len(s) - 1))
    ELSE s

\* String.prototype.trim
Trim(s) == TrimEnd(TrimStart(s))

\* mutant: the value is not trimmed before it is tested and returned
ensureString_NoTrim(value) ==
    IF value.t = "string" /\ value.v # <<>> THEN value ELSE Undefined

\* function ensureString(value)
ensureString(value) ==
    IF value.t = "string" /\ Trim(value.v) # <<>>
    THEN Str(Trim(value.v))
    ELSE Undefined

DigitOf(d) ==
    CASE d = 0 -> "0" [] d = 1 -> "1" [] d = 2 -> "2" [] d = 3 -> "3"
      [] d = 4 -> "4" [] d = 5 -> "5" [] d = 6 -> "6" [] d = 7 -> "7"
      [] d = 8 -> "8" [] d = 9 -> "9"

\* the decimal digits of a natural number
RECURSIVE Digits(_)
Digits(n) ==
    IF n < 10 THEN <<DigitOf(n)>> ELSE Append(Digits(n \div 10), DigitOf(n % 10))

Min(a, b) == IF a <= b THEN a ELSE b

(***************************************************************************)
(* Characters and the two regular expressions (route.ts:90-93).           *)
(***************************************************************************)
Alphabet == <<"a", "b", "c", "d", "e", "f", "g", "h", "i", "j", "k", "l", "m",
              "n", "o", "p", "q", "r", "s", "t", "u", "v", "w", "x", "y", "z">>
AlphabetUpper ==
    <<"A", "B", "C", "D", "E", "F", "G", "H", "I", "J", "K", "L", "M",
      "N", "O", "P", "Q", "R", "S", "T", "U", "V", "W", "X", "Y", "Z">>
UpperLetters == {AlphabetUpper[i] : i \in 1..26}
Letters == LowerLetters \cup UpperLetters

LowerChar(c) ==
    IF c \in UpperLetters
    THEN Alphabet[CHOOSE i \in 1..26 : AlphabetUpper[i] = c]
    ELSE c

\* String.prototype.toLowerCase
toLowerCase(s) == [i \in 1..Len(s) |-> LowerChar(s[i])]

\* String.prototype.startsWith
startsWith(s, prefix) ==
    Len(s) >= Len(prefix) /\ SubSeq(s, 1, Len(prefix)) = prefix

\* String.prototype.includes
includes(s, part) ==
    \E i \in 1..(Len(s) - Len(part) + 1) : SubSeq(s, i, i + Len(part) - 1) = part

\* String.prototype.slice(n)
sliceFrom(s, n) == SubSeq(s, n + 1, Len(s))

\* the last index of the maximal run of characters of `class` starting at
\* from (from - 1 when there is none)
RunEnd(s, from, class) ==
    IF from > Len(s) \/ s[from] \notin class
    THEN from - 1
    ELSE CHOOSE e \in from..Len(s) :
            /\ \A j \in from..e : s[j] \in class
            /\ e = Len(s) \/ s[e + 1] \notin class

\* the classes of EMAIL_REGEX under its i flag
EmailLocalChars == Letters \cup DigitChars \cup {".", "_", "%", "+", "-"}
EmailDomainChars == Letters \cup DigitChars \cup {".", "-"}

\* EMAIL_REGEX = /[a-z0-9._%+-]+@[a-z0-9.-]+\.[a-z]{2,}/gi tried at index
\* from: the index of the last character of the match, or 0 for no match.
\* The local part is the run up to the "@"; the greedy domain backtracks to
\* the last "." that at least two letters follow; the greedy top-level
\* domain takes every letter after it.
EmailMatchEnd(s, from) ==
    LET at == RunEnd(s, from, EmailLocalChars) + 1
        domEnd == RunEnd(s, at + 1, EmailDomainChars)
        dots == {p \in (at + 2)..(domEnd - 2) :
                    s[p] = "." /\ s[p + 1] \in Letters /\ s[p + 2] \in Letters}
        dot == CHOOSE p \in dots : \A q \in dots : q <= p
    IN  IF at = from \/ at > Len(s) \/ s[at] # "@" \/ dots = {}
        THEN 0
        ELSE RunEnd(s, dot + 1, Letters)

\* the class [0-9\s().-] of PHONE_REGEX
PhoneBodyChars == DigitChars \cup Whitespace \cup {"(", ")", ".", "-"}

\* PHONE_REGEX = /\+?[0-9][0-9\s().-]{6,}[0-9]/g tried at index from: the
\* index of the last character of the match, or 0.  The greedy body
\* backtracks to the last digit that leaves it six characters or more.
PhoneMatchEnd(s, from) ==
    LET first == IF from <= Len(s) /\ s[from] = "+" THEN from + 1 ELSE from
        bodyEnd == RunEnd(s, first + 1, PhoneBodyChars)
        lasts == {m \in (first + 7)..bodyEnd : s[m] \in DigitChars}
    IN  IF first > Len(s) \/ s[first] \notin DigitChars \/ lasts = {}
        THEN 0
        ELSE CHOOSE m \in lasts : \A q \in lasts : q <= m

\* description.match(EMAIL_REGEX): the matches of the global regular
\* expression from index from on, leftmost first and not overlapping
RECURSIVE EmailMatches(_, _)
EmailMatches(s, from) ==
    IF from > Len(s)
    THEN <<>>
    ELSE IF EmailMatchEnd(s, from) = 0
         THEN EmailMatches(s, from + 1)
         ELSE <<SubSeq(s, from, EmailMatchEnd(s, from))>>
                  \o EmailMatches(s, EmailMatchEnd(s, from) + 1)

\* description.match(PHONE_REGEX)
RECURSIVE PhoneMatches(_, _)
PhoneMatches(s, from) ==
    IF from > Len(s)
    THEN <<>>
    ELSE IF PhoneMatchEnd(s, from) = 0
         THEN PhoneMatches(s, from + 1)
         ELSE <<SubSeq(s, from, PhoneMatchEnd(s, from))>>
                  \o PhoneMatches(s, PhoneMatchEnd(s, from) + 1)

\* match.replace(/\s+/g, " ")
RECURSIVE CollapseSpaces(_)
CollapseSpaces(s) ==
    IF s = <<>>
    THEN <<>>
    ELSE IF Head(s) \in Whitespace
         THEN <<" ">> \o CollapseSpaces(TrimStart(s))
         ELSE <<Head(s)>> \o CollapseSpaces(Tail(s))

(***************************************************************************)
(* extractContacts (route.ts:209-279).                                     *)
(***************************************************************************)
TxtMailto == <<"m", "a", "i", "l", "t", "o", ":">>
TxtHttp == <<"h", "t", "t", "p">>
TxtHttpsScheme == <<"h", "t", "t", "p", "s", ":", "/", "/">>
TxtHr == <<"h", "r">>
KeyPhonePrefix == <<"p", "h", "o", "n", "e", "-">>
KeyWebsite == <<"w", "e", "b", "s", "i", "t", "e">>

\* Map.prototype.has on the insertion-ordered contactMap, a sequence of
\* [key, label, value] entries
MapHas(map, key) == \E i \in 1..Len(map) : map[i].key = key

\* Map.prototype.set: a new key is appended, an existing key keeps its place
MapSet(map, key, label, value) ==
    IF MapHas(map, key)
    THEN [i \in 1..Len(map) |->
            IF map[i].key = key
            THEN [key |-> key, label |-> label, value |-> value]
            ELSE map[i]]
    ELSE Append(map, [key |-> key, label |-> label, value |-> value])

\* the employerEmails array: the employer_email field, the address of a
\* mailto: apply link, the matches of EMAIL_REGEX in the description
CollectEmails(job) ==
    LET description == Coalesce(ensureString(job.job_description), Str(<<>>))
        applyLink == ensureString(job.job_apply_link)
        employerEmail == ensureString(job.employer_email)
    IN  (IF employerEmail # Undefined THEN <<employerEmail.v>> ELSE <<>>)
        \o (IF applyLink # Undefined /\ startsWith(applyLink.v, TxtMailto)
            THEN <<sliceFrom(applyLink.v, Len(TxtMailto))>>
            ELSE <<>>)
        \o (IF description.v # <<>>
            THEN EmailMatches(description.v, 1)
            ELSE <<>>)

\* mutant: the addresses are not lowercased before they are entered
RECURSIVE AddEmails_NoLowerCase(_, _)
AddEmails_NoLowerCase(map, emails) ==
    IF emails = <<>>
    THEN map
    ELSE LET email == Head(emails)
         IN  IF includes(email, <<"@">>) /\ ~MapHas(map, email)
             THEN AddEmails_NoLowerCase(
                      MapSet(map, email,
                             IF includes(email, TxtHr)
                             THEN "HR email" ELSE "Contact email",
                             email),
                      Tail(emails))
             ELSE AddEmails_NoLowerCase(map, Tail(emails))

\* employerEmails.map(toLowerCase).filter(includes "@").forEach(...): each
\* address is entered under its own lowercased text unless that key is there
RECURSIVE AddEmails(_, _)
AddEmails(map, emails) ==
    IF emails = <<>>
    THEN map
    ELSE LET email == toLowerCase(Head(emails))
         IN  IF includes(email, <<"@">>) /\ ~MapHas(map, email)
             THEN AddEmails(
                      MapSet(map, email,
                             IF includes(email, TxtHr)
                             THEN "HR email" ELSE "Contact email",
                             email),
                      Tail(emails))
             ELSE AddEmails(map, Tail(emails))

\* the phones Set: the matches of PHONE_REGEX, whitespace runs collapsed,
\* of 8 characters or more, each once, in order of first occurrence
RECURSIVE AddPhones(_, _)
AddPhones(phones, matches) ==
    IF matches = <<>>
    THEN phones
    ELSE LET normalized == Trim(CollapseSpaces(Head(matches)))
         IN  IF Len(normalized) >= 8
                /\ ~\E i \in 1..Len(phones) : phones[i] = normalized
             THEN AddPhones(Append(phones, normalized), Tail(matches))
             ELSE AddPhones(phones, Tail(matches))

CollectPhones(job) ==
    LET description == Coalesce(ensureString(job.job_description), Str(<<>>))
    IN  IF description.v # <<>>
        THEN AddPhones(<<>>, PhoneMatches(description.v, 1))
        ELSE <<>>

\* Array.from(phones).forEach(...): each phone under the key phone-<phone>
RECURSIVE AddPhoneContacts(_, _)
AddPhoneContacts(map, phones) ==
    IF phones = <<>>
    THEN map
    ELSE IF MapHas(map, KeyPhonePrefix \o Head(phones))
         THEN AddPhoneContacts(map, Tail(phones))
         ELSE AddPhoneContacts(
                  MapSet(map, KeyPhonePrefix \o Head(phones), "Phone",
                         Head(phones)),
                  Tail(phones))

\* the contactMap as extractContacts leaves it
ContactMap(job) ==
    LET employerWebsite == ensureString(job.employer_website)
        withEmails == AddEmails(<<>>, CollectEmails(job))
        withPhones == AddPhoneContacts(withEmails, CollectPhones(job))
    IN  IF employerWebsite # Undefined
        THEN MapSet(withPhones, KeyWebsite, "Company website",
                    IF startsWith(employerWebsite.v, TxtHttp)
                    THEN employerWebsite.v
                    ELSE TxtHttpsScheme \o employerWebsite.v)
        ELSE withPhones

\* function extractContacts(job): Array.from(contactMap.values())
extractContacts(job) ==
    LET map == ContactMap(job)
    IN  [i \in 1..Len(map) |-> [label |-> map[i].label, value |-> map[i].value]]

(***************************************************************************)
(* The raw listings extractContacts is applied to.                         *)
(***************************************************************************)
\* a JSearchJob with no field set (route.ts:65-83)
EmptyJob ==
    [job_id |-> Undefined, job_title |-> Undefined,
     employer_name |-> Undefined, employer_website |-> Undefined,
     employer_email |-> Undefined, job_apply_link |-> Undefined,
     job_description |-> Undefined, job_salary |-> Undefined]

\* the pieces job descriptions are assembled from: addresses that differ in
\* case only, an address whose top-level domain is too short to match, phone
\* numbers that differ in whitespace only, and a match of PHONE_REGEX that
\* is shorter than 8 characters once its whitespace is collapsed
DescriptionTokens ==
    {<<"h", "r", "@", "x", ".", "i", "o", " ">>,
     <<"H", "R", "@", "X", ".", "I", "O", " ">>,
     <<"j", "o", "@", "x", ".", "i", " ">>,
     <<"b", "o", "@", "x", ".", "i", "o", ",">>,
     <<"+", "1", " ", "2", "3", "4", " ", "5", "6", "7", "8", " ">>,
     <<"+", "1", " ", " ", "2", "3", "4", " ", "5", "6", "7", "8", " ">>,
     <<"1", " ", " ", " ", " ", " ", " ", "2", " ">>}

RECURSIVE TokenTexts(_)
TokenTexts(n) ==
    IF n = 0
    THEN {<<>>}
    ELSE TokenTexts(n - 1)
             \cup {s \o tok : s \in TokenTexts(n - 1), tok \in DescriptionTokens}

Descriptions == {Undefined, Str(<<" ">>)} \cup {Str(s) : s \in TokenTexts(MaxTokens)}

EmployerEmails ==
    {Undefined,
     Str(<<" ", "H", "R", "@", "x", ".", "i", "o", " ">>),
     Str(<<"n", "/", "a">>),
     Str(<<"b", "o", "@", "x", ".", "i", "o">>)}

ApplyLinks ==
    {Undefined,
     Str(<<"m", "a", "i", "l", "t", "o", ":", "h", "r", "@", "x", ".", "i", "o">>),
     Str(<<"m", "a", "i", "l", "t", "o", ":", "J", "o", "@", "x", ".", "i", "o">>),
     Str(<<"h", "t", "t", "p", "s", ":", "/", "/", "x", ".", "i", "o", "/", "a">>)}

Websites ==
    {Undefined,
     Str(<<"x", ".", "i", "o">>),
     Str(<<"h", "t", "t", "p", ":", "/", "/", "x", ".", "i", "o">>)}

ContactJobs ==
    {[EmptyJob EXCEPT !.job_description = d, !.employer_email = e,
                      !.job_apply_link = a, !.employer_website = w] :
        d \in Descriptions, e \in EmployerEmails, a \in ApplyLinks,
        w \in Websites}

(***************************************************************************)
(* formatSalary (route.ts:124-165).                                        *)
(***************************************************************************)
UpperChar(c) ==
    IF c \in LowerLetters
    THEN AlphabetUpper[CHOOSE i \in 1..26 : Alphabet[i] = c]
    ELSE c

toUpperCase(s) == [i \in 1..Len(s) |-> UpperChar(s[i])]

\* a well-formed currency code is three letters; Intl.NumberFormat throws a
\* RangeError for any other
IsWellFormedCurrencyCode(code) ==
    code.t = "string" /\ Len(code.v) = 3 /\ \A i \in 1..3 : code.v[i] \in Letters

\* what en-IN writes before the amount: the currency's sign where the locale
\* has one (the rupee sign is written here by its Unicode name), else the
\* code and a no-break space
CurrencyPrefix(code) ==
    CASE toUpperCase(code) = <<"I", "N", "R">> -> <<"INDIAN RUPEE SIGN">>
      [] toUpperCase(code) = <<"U", "S", "D">> -> <<"$">>
      [] OTHER -> toUpperCase(code) \o <<"NO-BREAK SPACE">>

\* the digits before the last three, in groups of two
RECURSIVE GroupTwos(_)
GroupTwos(d) ==
    IF Len(d) <= 2
    THEN d
    ELSE GroupTwos(SubSeq(d, 1, Len(d) - 2)) \o <<",">>
             \o SubSeq(d, Len(d) - 1, Len(d))

\* the en-IN grouping of a natural number: 1250000 is 12,50,000
GroupIndian(n) ==
    LET d == Digits(n)
    IN  IF Len(d) <= 3
        THEN d
        ELSE GroupTwos(SubSeq(d, 1, Len(d) - 3)) \o <<",">>
                 \o SubSeq(d, Len(d) - 2, Len(d))

\* new Intl.NumberFormat("en-IN", {style: "currency", currency,
\* maximumFractionDigits: 0}).format(Number(value)), for an integer value
FormatCurrency(code, value) ==
    (IF value.v < 0 THEN <<"-">> ELSE <<>>)
        \o CurrencyPrefix(code)
        \o GroupIndian(IF value.v < 0 THEN 0 - value.v ELSE value.v)

RangeError == [t |-> "throw", error |-> "RangeError"]

\* resolvedPeriod ? ` / ${resolvedPeriod}` : ""
PeriodSuffix(resolvedPeriod) ==
    IF Truthy(resolvedPeriod) THEN <<" ", "/", " ">> \o resolvedPeriod.v ELSE <<>>

\* mutant: the period is read under its primary name only
formatSalary_PrimaryPeriod(job) ==
    LET salary == job.job_salary
        min == Coalesce(salary.salary_min, salary.min_salary)
        max == Coalesce(salary.salary_max, salary.max_salary)
        resolvedPeriod == salary.salary_period
        currency == Coalesce(salary.currency, Str(<<"I", "N", "R">>))
        value == Coalesce(min, max)
    IN  IF ~Truthy(salary)
        THEN Undefined
        ELSE IF ~Truthy(min) /\ ~Truthy(max)
        THEN Undefined
        ELSE IF ~IsWellFormedCurrencyCode(currency)
        THEN RangeError
        ELSE IF Truthy(min) /\ Truthy(max)
        THEN Str(FormatCurrency(currency.v, min) \o <<" ", "-", " ">>
                     \o FormatCurrency(currency.v, max)
                     \o PeriodSuffix(resolvedPeriod))
        ELSE IF Truthy(value)
        THEN Str(FormatCurrency(currency.v, value) \o PeriodSuffix(resolvedPeriod))
        ELSE Undefined

\* function formatSalary(job)
formatSalary(job) ==
    LET salary == job.job_salary
        min == Coalesce(salary.salary_min, salary.min_salary)
        max == Coalesce(salary.salary_max, salary.max_salary)
        resolvedPeriod == Coalesce(salary.salary_period, salary.period)
        currency == Coalesce(salary.currency, Str(<<"I", "N", "R">>))
        value == Coalesce(min, max)
    IN  IF ~Truthy(salary)
        THEN Undefined
        ELSE IF ~Truthy(min) /\ ~Truthy(max)
        THEN Undefined
        ELSE IF ~IsWellFormedCurrencyCode(currency)
        THEN RangeError
        ELSE IF Truthy(min) /\ Truthy(max)
        THEN Str(FormatCurrency(currency.v, min) \o <<" ", "-", " ">>
                     \o FormatCurrency(currency.v, max)
                     \o PeriodSuffix(resolvedPeriod))
        ELSE IF Truthy(value)
        THEN Str(FormatCurrency(currency.v, value) \o PeriodSuffix(resolvedPeriod))
        ELSE Undefined

(***************************************************************************)
(* The salary records formatSalary is applied to (type JobSalary,          *)
(* route.ts:55-63): every combination of the seven fields.                 *)
(***************************************************************************)
Currencies == {Undefined, Str(<<"U", "S", "D">>), Str(<<"$">>)}
MinAmounts == {Undefined, Null, Num(0), Num(45000)}
MaxAmounts == {Undefined, Null, Num(0), Num(1250000)}
Periods == {Undefined, Str(<<>>), Str(<<"Y", "E", "A", "R">>)}

SalaryRecords ==
    {[t |-> "object", currency |-> c, salary_min |-> a1, salary_max |-> b1,
      salary_period |-> p1, min_salary |-> a2, max_salary |-> b2,
      period |-> p2] :
        c \in Currencies, a1 \in MinAmounts, a2 \in MinAmounts,
        b1 \in MaxAmounts, b2 \in MaxAmounts, p1 \in Periods, p2 \in Periods}

SalaryJobs ==
    {[EmptyJob EXCEPT !.job_salary = r] :
        r \in SalaryRecords \cup {Undefined, Null}}

\* the record carries its amounts and period under the primary names only
PrimaryNamesOnly(salary) ==
    /\ salary.t = "object"
    /\ salary.min_salary = Undefined
    /\ salary.max_salary = Undefined
    /\ salary.period = Undefined

\* the same values under the alternate names only
UnderAlternateNames(salary) ==
    [t |-> "object", currency |-> salary.currency,
     salary_min |-> Undefined, salary_max |-> Undefined,
     salary_period |-> Undefined, min_salary |-> salary.salary_min,
     max_salary |-> salary.salary_max, period |-> salary.salary_period]

(***************************************************************************)
(* formatPosted (route.ts:167-207).  An instant (the time value of a Date) *)
(* is kept as the whole days since 1970-01-01T00:00Z and the milliseconds  *)
(* into that day; a difference of two instants is a number of              *)
(* milliseconds.                                                           *)
(***************************************************************************)
MsPerSecond == 1000
MsPerMinute == 60000
MsPerHour == 3600000
MsPerDay == 86400000
SecondsPerDay == 86400

Instant(day, ms) == [t |-> "date", day |-> day, ms |-> ms]
InvalidDate == [t |-> "invalid-date"]
IsValidDate(d) == d # InvalidDate

\* the instant ms milliseconds after the start of day
Normalized(day, ms) == Instant(day + (ms \div MsPerDay), ms % MsPerDay)

\* a.getTime() - b.getTime()
DiffMs(a, b) == (a.day - b.day) * MsPerDay + (a.ms - b.ms)

\* new Date(seconds * 1000)
FromEpochSeconds(seconds) ==
    Instant(seconds \div SecondsPerDay, (seconds % SecondsPerDay) * MsPerSecond)

\* the days from 1970-01-01 to the day d of month m of year y of the
\* proleptic Gregorian calendar
DaysFromCivil(y, m, d) ==
    LET yy == IF m <= 2 THEN y - 1 ELSE y
        era == yy \div 400
        yoe == yy - era * 400
        mp == IF m > 2 THEN m - 3 ELSE m + 9
        doy == ((153 * mp + 2) \div 5) + d - 1
        doe == yoe * 365 + (yoe \div 4) - (yoe \div 100) + doy
    IN  era * 146097 + doe - 719468

\* the year, month and day of month of the day z days after 1970-01-01
CivilFromDays(z) ==
    LET zz == z + 719468
        era == zz \div 146097
        doe == zz - era * 146097
        yoe == (doe - (doe \div 1460) + (doe \div 36524) - (doe \div 146096)) \div 365
        doy == doe - (365 * yoe + (yoe \div 4) - (yoe \div 100))
        mp == (5 * doy + 2) \div 153
        d == doy - ((153 * mp + 2) \div 5) + 1
        m == IF mp < 10 THEN mp + 3 ELSE mp - 9
        y == yoe + era * 400
    IN  [year |-> IF m <= 2 THEN y + 1 ELSE y, month |-> m, day |-> d]

\* the value of a run of decimal digits
RECURSIVE NumberOf(_)
NumberOf(s) ==
    IF s = <<>>
    THEN 0
    ELSE NumberOf(SubSeq(s, 1, Len(s) - 1)) * 10
             + (CHOOSE n \in 0..9 : DigitOf(n) = s[Len(s)])

AllDigits(s) == \A i \in 1..Len(s) : s[i] \in DigitChars

\* n in decimal, padded with zeros to width digits
RECURSIVE Padded(_, _)
Padded(n, width) ==
    IF Len(Digits(n)) >= width
    THEN Digits(n)
    ELSE <<"0">> \o Padded(n, width - 1)

\* Date.prototype.toISOString: YYYY-MM-DDTHH:mm:ss.sssZ, the form in which
\* the provider writes job_posted_at_datetime_utc
IsoText(date) ==
    LET c == CivilFromDays(date.day)
    IN  Padded(c.year, 4) \o <<"-">> \o Padded(c.month, 2) \o <<"-">>
            \o Padded(c.day, 2) \o <<"T">>
            \o Padded(date.ms \div MsPerHour, 2) \o <<":">>
            \o Padded((date.ms % MsPerHour) \div MsPerMinute, 2) \o <<":">>
            \o Padded((date.ms % MsPerMinute) \div MsPerSecond, 2) \o <<".">>
            \o Padded(date.ms % MsPerSecond, 3) \o <<"Z">>

\* the same instant without the fraction of a second: YYYY-MM-DDTHH:mm:ssZ
IsoTextSeconds(date) ==
    SubSeq(IsoText(date), 1, 19) \o <<"Z">>

\* new Date(text) for a text in the date-time format of ECMAScript with the
\* offset Z (with or without the fraction of a second); any other text
\* without a digit in it is not a date
ParseDate(text) ==
    LET n == Len(text)
        shaped ==
            /\ n \in {20, 24}
            /\ text[5] = "-" /\ text[8] = "-" /\ text[11] = "T"
            /\ text[14] = ":" /\ text[17] = ":" /\ text[n] = "Z"
            /\ AllDigits(SubSeq(text, 1, 4)) /\ AllDigits(SubSeq(text, 6, 7))
            /\ AllDigits(SubSeq(text, 9, 10)) /\ AllDigits(SubSeq(text, 12, 13))
            /\ AllDigits(SubSeq(text, 15, 16)) /\ AllDigits(SubSeq(text, 18, 19))
            /\ n = 24 => (text[20] = "." /\ AllDigits(SubSeq(text, 21, 23)))
        year == NumberOf(SubSeq(text, 1, 4))
        month == NumberOf(SubSeq(text, 6, 7))
        day == NumberOf(SubSeq(text, 9, 10))
        hour == NumberOf(SubSeq(text, 12, 13))
        minute == NumberOf(SubSeq(text, 15, 16))
        second == NumberOf(SubSeq(text, 18, 19))
        milli == IF n = 24 THEN NumberOf(SubSeq(text, 21, 23)) ELSE 0
    IN  IF ~shaped
        THEN InvalidDate
        ELSE IF \/ month \notin 1..12
                \/ day \notin 1..31
                \/ hour > 23 \/ minute > 59 \/ second > 59
        THEN InvalidDate
        ELSE Instant(DaysFromCivil(year, month, day),
                     hour * MsPerHour + minute * MsPerMinute
                         + second * MsPerSecond + milli)

MonthNames ==
    <<<<"J", "a", "n">>, <<"F", "e", "b">>, <<"M", "a", "r">>,
      <<"A", "p", "r">>, <<"M", "a", "y">>, <<"J", "u", "n">>,
      <<"J", "u", "l">>, <<"A", "u", "g">>, <<"S", "e", "p">>,
      <<"O", "c", "t">>, <<"N", "o", "v">>, <<"D", "e", "c">>>>

\* date.toLocaleDateString("en-IN", {month: "short", day: "numeric",
\* year: "numeric"}) on a server tz minutes ahead of UTC: 5 Nov 2026
LocaleDateText(date, tz) ==
    LET local == Normalized(date.day, date.ms + tz * MsPerMinute)
        c == CivilFromDays(local.day)
    IN  Digits(c.day) \o <<" ">> \o MonthNames[c.month] \o <<" ">> \o Digits(c.year)

TxtLessThanAnHour == <<"Posted less than an hour ago">>
TxtYesterday == <<"Posted yesterday">>
TxtPosted == <<"Posted ">>
TxtHoursAgo == <<"h ago">>
TxtDaysAgo == <<" days ago">>

\* a whole number as JavaScript writes it in a template literal
NumberText(n) == IF n < 0 THEN <<"-">> \o Digits(0 - n) ELSE Digits(n)

\* the date the fields of the listing resolve to, or Undefined
ResolvedDate(dateSource) ==
    LET iso == Coalesce(ensureString(dateSource.job_posted_at_datetime_utc),
                 Coalesce(ensureString(dateSource.job_posted_at),
                          ensureString(dateSource.job_posted_at_timestamp)))
        candidate == IF Truthy(iso) THEN ParseDate(iso.v) ELSE InvalidDate
        date == IF IsValidDate(candidate) THEN candidate ELSE Undefined
    IN  IF date = Undefined /\ dateSource.job_posted_at_timestamp.t = "number"
        THEN FromEpochSeconds(dateSource.job_posted_at_timestamp.v)
        ELSE date

\* mutant: a listing posted exactly a week ago is still counted in days
PostedMessage_WeekInclusive(date, now, tz) ==
    LET diffMs == DiffMs(now, date)
        diffDays == diffMs \div MsPerDay
        diffHours == diffMs \div MsPerHour
    IN  IF diffDays < 1
        THEN IF diffHours <= 1
             THEN Str(TxtLessThanAnHour)
             ELSE Str(TxtPosted \o NumberText(diffHours) \o TxtHoursAgo)
        ELSE IF diffDays <= 7
        THEN IF diffDays = 1
             THEN Str(TxtYesterday)
             ELSE Str(TxtPosted \o NumberText(diffDays) \o TxtDaysAgo)
        ELSE Str(LocaleDateText(date, tz))

\* the message for a date, from `const now = new Date()` on
PostedMessage(date, now, tz) ==
    LET diffMs == DiffMs(now, date)
        diffDays == diffMs \div MsPerDay
        diffHours == diffMs \div MsPerHour
    IN  IF diffDays < 1
        THEN IF diffHours <= 1
             THEN Str(TxtLessThanAnHour)
             ELSE Str(TxtPosted \o NumberText(diffHours) \o TxtHoursAgo)
        ELSE IF diffDays < 7
        THEN IF diffDays = 1
             THEN Str(TxtYesterday)
             ELSE Str(TxtPosted \o NumberText(diffDays) \o TxtDaysAgo)
        ELSE Str(LocaleDateText(date, tz))

\* function formatPosted(dateSource), called at the instant now
formatPosted(dateSource, now, tz) ==
    IF ResolvedDate(dateSource) = Undefined
    THEN Undefined
    ELSE PostedMessage(ResolvedDate(dateSource), now, tz)

(***************************************************************************)
(* The listings formatPosted is applied to (route.ts:80-82): the instants  *)
(* at which it is called, how long before the listing was posted, and the  *)
(* ways the provider writes that date into the three fields.               *)
(***************************************************************************)
\* 2026-11-05T10:15:00Z, and 2024-03-01T00:20:00Z (the day after a leap day)
Nows ==
    {Instant(DaysFromCivil(2026, 11, 5), 10 * MsPerHour + 15 * MsPerMinute),
     Instant(DaysFromCivil(2024, 3, 1), 20 * MsPerMinute)}

\* the server's offset from UTC, in minutes: UTC and India
TimeZoneOffsets == {0, 330}

\* the minutes between the posting and the call: a minute in the future,
\* and every boundary of the hour, day and week ranges
AgesInMinutes ==
    {-1, 0, 30, 60, 61, 90, 119, 120, 1439, 1440, 2879, 2880, 10079, 10080,
     14400}

PostedBefore(now, minutes) == Normalized(now.day, now.ms - minutes * MsPerMinute)

EpochSeconds(date) == date.day * SecondsPerDay + (date.ms \div MsPerSecond)

TxtSoon == <<"s", "o", "o", "n">>
TxtNotAvailable == <<"n", "/", "a">>

\* job_posted_at_datetime_utc: absent, a text that is no date, or the date
ValidDatetimeFields(date) ==
    {Str(IsoText(date)), Str(<<" ">> \o IsoTextSeconds(date))}
DatetimeFields(date) == {Undefined, Str(TxtSoon)} \cup ValidDatetimeFields(date)

\* job_posted_at: absent, a text that is no date, the date, or the date of
\* an earlier posting of the same listing, three days before
PostedAtFields(date) ==
    {Undefined, Str(TxtNotAvailable), Str(IsoText(date)),
     Str(IsoTextSeconds(Instant(date.day - 3, date.ms)))}

\* job_posted_at_timestamp: absent, null, or the date in epoch seconds
TimestampFields(date) == {Undefined, Null, Num(EpochSeconds(date))}

\* the posted-at fields of a listing, the only ones formatPosted reads
PostedJob(datetime, postedAt, timestamp) ==
    [job_posted_at_datetime_utc |-> datetime, job_posted_at |-> postedAt,
     job_posted_at_timestamp |-> timestamp]

(***************************************************************************)
(* fetchCompanyInsight (route.ts:291-331).                                 *)
(***************************************************************************)
NotJson == [t |-> "invalid"]
Array(items) == [t |-> "array", v |-> items]

\* bestMatch.twitter?.handle ? `${prefix}${handle}` : undefined
ProfileUrl(prefix, profile) ==
    IF profile.t = "object" /\ Truthy(profile.handle)
    THEN Str(<<prefix>> \o profile.handle.v)
    ELSE Undefined

\* the CompanyInsight made of the first suggestion
InsightOf(bestMatch) ==
    [t |-> "object", name |-> bestMatch.name, domain |-> bestMatch.domain,
     description |-> bestMatch.description, logo |-> bestMatch.logo,
     location |-> bestMatch.location,
     twitter |-> ProfileUrl("https://twitter.com/", bestMatch.twitter),
     linkedin |-> ProfileUrl("https://www.linkedin.com/", bestMatch.linkedin)]

\* mutant: no try/catch, so a rejected fetch or json() is passed on
fetchCompanyInsight_NoCatch(answer) ==
    IF answer.kind = "unreachable"
    THEN [t |-> "throw", error |-> "TypeError"]
    ELSE IF ~answer.ok
    THEN Undefined
    ELSE IF answer.body = NotJson
    THEN [t |-> "throw", error |-> "SyntaxError"]
    ELSE IF answer.body.t # "array" \/ Len(answer.body.v) = 0
    THEN Undefined
    ELSE InsightOf(answer.body.v[1])

\* async function fetchCompanyInsight(name), given what the directory
\* answered: a rejected fetch, a status that is not ok, a body that is not
\* JSON, not an array or an empty array all give undefined
fetchCompanyInsight(answer) ==
    IF answer.kind = "unreachable"
    THEN Undefined
    ELSE IF ~answer.ok
    THEN Undefined
    ELSE IF answer.body = NotJson
    THEN Undefined
    ELSE IF answer.body.t # "array" \/ Len(answer.body.v) = 0
    THEN Undefined
    ELSE InsightOf(answer.body.v[1])

\* the directory's suggestion records for a name: the company itself first,
\* then (when two are returned) a namesake
Suggestion(name, rank) ==
    [t |-> "object",
     name |-> Str(IF rank = 1 THEN name ELSE name \o <<" ", "L", "t", "d">>),
     domain |-> Str(toLowerCase(name) \o <<".", "c", "o", "m">>),
     description |-> Undefined, logo |-> Undefined, location |-> Undefined,
     twitter |-> IF rank = 1 THEN [t |-> "object", handle |-> Str(name)] ELSE Null,
     linkedin |-> Null]

Suggestions(name, count) == [rank \in 1..count |-> Suggestion(name, rank)]

(***************************************************************************)
(* The POST handler (route.ts:333-478): its inputs.                        *)
(***************************************************************************)
MaxJobs == 12   \* jobs.slice(0, 12)

TxtUnknownCompany == <<"U", "n", "k", "n", "o", "w", "n", " ", "c", "o", "m", "p", "a", "n", "y">>

JobProfiles == {Undefined, Str(<<" ">>), Num(7), Str(<<" ", "d", "e", "v", " ">>)}
Locations == {Undefined, Str(<<" ">>), Num(7), Str(<<"G", "o", "a">>)}
InlineKeys == {Undefined, Str(<<" ">>), Str(<<" ", "k", "1">>)}
EnvKeys == {Undefined, Str(<<" ">>), Str(<<"k", "2", " ">>)}

\* a body request.json() rejects
UnparsableBody == [parse |-> "error"]

Body(profile, location, key) ==
    [parse |-> "ok", jobProfile |-> profile, location |-> location,
     rapidApiKey |-> key]

\* every request shape
Bodies ==
    {UnparsableBody}
        \cup {Body(j, l, k) : j \in JobProfiles, l \in Locations, k \in InlineKeys}

\* one request of each outcome of the input checks
CoreBodies ==
    {UnparsableBody,
     Body(Undefined, Str(<<"G", "o", "a">>), Str(<<"k", "1">>)),
     Body(Str(<<" ", "d", "e", "v", " ">>), Str(<<" ">>), Str(<<"k", "1">>)),
     Body(Str(<<" ", "d", "e", "v", " ">>), Str(<<"G", "o", "a">>), Undefined),
     Body(Str(<<" ", "d", "e", "v", " ">>), Str(<<"G", "o", "a">>), Str(<<"k", "1">>))}

\* the employer name of the listing at position i: under "named" every
\* listing has one (every third padded with blanks); under "mixed" the odd
\* positions have none, a blank one, or the text Unknown company
EmployerName(pattern, i) ==
    LET name == <<"C">> \o Digits(i)
    IN  IF pattern = "named" \/ i % 2 = 0
        THEN Str(IF i % 3 = 1 THEN <<" ">> \o name \o <<" ", " ">> ELSE name)
        ELSE CASE (i \div 2) % 3 = 0 -> Undefined
               [] (i \div 2) % 3 = 1 -> Str(<<" ", " ">>)
               [] OTHER -> Str(TxtUnknownCompany)

\* the raw listing at position i of the provider's list
RawListing(pattern, i) ==
    [EmptyJob EXCEPT
        !.job_id = IF i % 5 = 0 THEN Undefined ELSE Str(<<"j">> \o Digits(i)),
        !.job_title = IF i % 2 = 0 THEN Undefined ELSE Str(<<"Q", "A">>),
        !.employer_name = EmployerName(pattern, i)]

\* the provider's lists: the "mixed" list of every length up to maxLen, and
\* the "named" list of maxLen listings
ListingLists(maxLen) ==
    {[i \in 1..n |-> RawListing("mixed", i)] : n \in 0..maxLen}
        \cup {[i \in 1..maxLen |-> RawListing("named", i)]}

\* what the search provider may answer: no answer at all (fetch rejects), a
\* status that is not ok with or without a message, or status 200 with a
\* body that is not JSON, has no list under data, or has a list
ProviderErrorStatuses == {401, 429}

ProviderErrorBodies ==
    {NotJson,
     [t |-> "object", data |-> Undefined, message |-> Undefined],
     [t |-> "object", data |-> Undefined, message |-> Str(<<>>)],
     [t |-> "object", data |-> Undefined, message |-> Str(<<"q", "u", "o", "t", "a">>)]}

ProviderAnswers(maxLen) ==
    {[kind |-> "unreachable"]}
        \cup {[kind |-> "http", status |-> st, body |-> b] :
                st \in ProviderErrorStatuses, b \in ProviderErrorBodies}
        \cup {[kind |-> "http", status |-> 200, body |-> b] :
                b \in {NotJson,
                       [t |-> "object", data |-> Undefined, message |-> Undefined],
                       [t |-> "object", data |-> Str(<<"n", "o">>), message |-> Undefined]}}
        \cup {[kind |-> "http", status |-> 200,
               body |-> [t |-> "object", data |-> Array(list), message |-> Undefined]] :
                list \in ListingLists(maxLen)}

\* Response.ok
IsOk(status) == status >= 200 /\ status <= 299

(***************************************************************************)
(* The POST handler: its steps.                                            *)
(***************************************************************************)
ErrorResponse(status, error) == [status |-> status, error |-> error]

\* mutant: an empty result is answered as "not found"
JobsResponse_NotFound(list) ==
    IF list = <<>>
    THEN [status |-> 404, error |-> Str(<<"No jobs found">>)]
    ELSE [status |-> 200, jobs |-> list]

\* NextResponse.json({jobs})
JobsResponse(list) == [status |-> 200, jobs |-> list]

ServerError ==
    ErrorResponse(500,
        Str(<<"Unexpected server error while fetching hiring intelligence.">>))

\* mutant: the process-wide key is preferred to the inline key
ResolveKey_EnvFirst(b, env) ==
    Coalesce(ensureString(env), ensureString(b.rapidApiKey))

\* const rapidApiKey = ensureString(body.rapidApiKey) ??
\*                     ensureString(process.env.RAPIDAPI_KEY)
ResolveKey(b, env) == Coalesce(ensureString(b.rapidApiKey), ensureString(env))

\* mutant: every provider failure is answered with status 502
ProviderFailure_BadGateway(answer) ==
    LET detail == IF answer.body = NotJson THEN Null ELSE answer.body
        message == IF detail.t = "object" THEN detail.message ELSE Undefined
    IN  [status |-> 502,
         error |-> Coalesce(message,
                     Str(<<"JSearch API returned ">> \o Digits(answer.status)
                             \o <<". Check RapidAPI quota and key.">>))]

\* the response of the branch `if (!response.ok)`: the provider's status,
\* with detail?.message or else the fixed text naming the status
ProviderFailure(answer) ==
    LET detail == IF answer.body = NotJson THEN Null ELSE answer.body
        message == IF detail.t = "object" THEN detail.message ELSE Undefined
    IN  ErrorResponse(answer.status,
            Coalesce(message,
                Str(<<"JSearch API returned ">> \o Digits(answer.status)
                        \o <<". Check RapidAPI quota and key.">>)))

\* const jobs = Array.isArray(result?.data) ? result.data : []
JobsOf(result) ==
    IF result.t = "object" /\ result.data.t = "array" THEN result.data.v ELSE <<>>

\* mutant: the list is not cut to its first 12 listings
TrimmedJobs_NoCap(list) == list

\* const trimmedJobs = jobs.slice(0, 12)
TrimmedJobs(list) == SubSeq(list, 1, Min(Len(list), MaxJobs))

\* const companyName = ensureString(job.employer_name) ?? "Unknown company"
CompanyName(job) == Coalesce(ensureString(job.employer_name), Str(TxtUnknownCompany))

\* mutant: the lookup is made for every listing, named or not
NeedsLookup_Always(job) == TRUE

\* companyName !== "Unknown company"
NeedsLookup(job) == CompanyName(job) # Str(TxtUnknownCompany)

\* the JobResult the callback of trimmedJobs.map returns for the listing at
\* index i; crypto.randomUUID() gives an identifier no other listing has
Enriched(job, i, jobProfile, companyInsight) ==
    [id |-> Coalesce(ensureString(job.job_id), Str(<<"uuid-">> \o Digits(i))),
     title |-> Coalesce(ensureString(job.job_title), jobProfile),
     company |-> CompanyName(job).v,
     salary |-> formatSalary(job),
     contacts |-> extractContacts(job),
     companyInsight |-> companyInsight]

\* the callback of trimmedJobs.map run up to its first await: a listing
\* with a company name awaits its lookup, any other is fulfilled at once
StartTask(job, i, jobProfile) ==
    IF NeedsLookup(job)
    THEN [state |-> "awaiting", lookup |-> "pending", value |-> Undefined]
    ELSE [state |-> "fulfilled", lookup |-> "none",
          value |-> Enriched(job, i, jobProfile, Undefined)]

\* mutant: every lookup is issued a second time
StartedLookups_Twice(list, i) ==
    LET all == [k \in 1..(Len(list) - i + 1) |->
                   [listing |-> k + i - 1, name |-> CompanyName(list[k + i - 1]).v]]
        Named(call) == NeedsLookup(list[call.listing])
    IN  SelectSeq(all, Named) \o SelectSeq(all, Named)

\* the fetchCompanyInsight calls trimmedJobs.map starts, in index order
RECURSIVE StartedLookups(_, _)
StartedLookups(list, i) ==
    IF i > Len(list)
    THEN <<>>
    ELSE (IF NeedsLookup(list[i])
          THEN <<[listing |-> i, name |-> CompanyName(list[i]).v]>>
          ELSE <<>>)
             \o StartedLookups(list, i + 1)

\* mutant: resumes as soon as one promise is fulfilled (Promise.race)
AllFulfilled_Any(ts) == \E i \in 1..Len(ts) : ts[i].state = "fulfilled"

\* Promise.all is fulfilled once every promise is, with the values by index
AllFulfilled(ts) == \A i \in 1..Len(ts) : ts[i].state = "fulfilled"
AllValues(ts) == [i \in 1..Len(ts) |-> ts[i].value]

FailedLookups(ts) == Cardinality({i \in 1..Len(ts) : ts[i].lookup = "failed"})

Respond(r) ==
    /\ response' = r
    /\ pc' = "done"

untouched == <<cjob, contacts, sjob, sout, sprev, pjob, pdate, pnow, ptz, pout,
               floading, ferror, fresults, fdisabled, frequests>>

\* request.json() rejects: the catch block answers 500
BodyUnparsable ==
    /\ pc = "received"
    /\ body.parse = "error"
    /\ Respond(ServerError)
    /\ UNCHANGED <<body, envKey, upstream, searchCalls, jobs, tasks, lookupCalls>>
    /\ UNCHANGED untouched

\* if (!jobProfile)
MissingJobProfile ==
    /\ pc = "received"
    /\ body.parse = "ok"
    /\ ensureString(body.jobProfile) = Undefined
    /\ Respond(ErrorResponse(400, Str(<<"jobProfile is required">>)))
    /\ UNCHANGED <<body, envKey, upstream, searchCalls, jobs, tasks, lookupCalls>>
    /\ UNCHANGED untouched

\* if (!location)
MissingLocation ==
    /\ pc = "received"
    /\ body.parse = "ok"
    /\ ensureString(body.jobProfile) # Undefined
    /\ ensureString(body.location) = Undefined
    /\ Respond(ErrorResponse(400, Str(<<"location is required">>)))
    /\ UNCHANGED <<body, envKey, upstream, searchCalls, jobs, tasks, lookupCalls>>
    /\ UNCHANGED untouched

\* mutant: the credential is checked before jobProfile and location
MissingKey_BeforeFields ==
    /\ pc = "received"
    /\ body.parse = "ok"
    /\ ResolveKey(body, envKey) = Undefined
    /\ Respond(ErrorResponse(401,
         Str(<<"RapidAPI key missing. Provide it in the request or configure RAPIDAPI_KEY.">>)))
    /\ UNCHANGED <<body, envKey, upstream, searchCalls, jobs, tasks, lookupCalls>>
    /\ UNCHANGED untouched

\* if (!rapidApiKey)
MissingKey ==
    /\ pc = "received"
    /\ body.parse = "ok"
    /\ ensureString(body.jobProfile) # Undefined
    /\ ensureString(body.location) # Undefined
    /\ ResolveKey(body, envKey) = Undefined
    /\ Respond(ErrorResponse(401,
         Str(<<"RapidAPI key missing. Provide it in the request or configure RAPIDAPI_KEY.">>)))
    /\ UNCHANGED <<body, envKey, upstream, searchCalls, jobs, tasks, lookupCalls>>
    /\ UNCHANGED untouched

\* every check passed: fetch(jsearch, {headers: {"X-RapidAPI-Key": rapidApiKey}})
CallProvider ==
    /\ pc = "received"
    /\ body.parse = "ok"
    /\ ensureString(body.jobProfile) # Undefined
    /\ ensureString(body.location) # Undefined
    /\ ResolveKey(body, envKey) # Undefined
    /\ searchCalls' = Append(searchCalls, [key |-> ResolveKey(body, envKey).v])
    /\ pc' = "searching"
    /\ UNCHANGED <<body, envKey, upstream, jobs, tasks, lookupCalls, response>>
    /\ UNCHANGED untouched

\* the provider's fetch rejects: the catch block answers 500
ProviderUnreachable ==
    /\ pc = "searching"
    /\ upstream.kind = "unreachable"
    /\ Respond(ServerError)
    /\ UNCHANGED <<body, envKey, upstream, searchCalls, jobs, tasks, lookupCalls>>
    /\ UNCHANGED untouched

\* if (!response.ok)
ProviderNotOk ==
    /\ pc = "searching"
    /\ upstream.kind = "http"
    /\ ~IsOk(upstream.status)
    /\ Respond(ProviderFailure(upstream))
    /\ UNCHANGED <<body, envKey, upstream, searchCalls, jobs, tasks, lookupCalls>>
    /\ UNCHANGED untouched

\* await response.json() rejects on the ok response: the catch block
ProviderBodyUnparsable ==
    /\ pc = "searching"
    /\ upstream.kind = "http"
    /\ IsOk(upstream.status)
    /\ upstream.body = NotJson
    /\ Respond(ServerError)
    /\ UNCHANGED <<body, envKey, upstream, searchCalls, jobs, tasks, lookupCalls>>
    /\ UNCHANGED untouched

\* if (jobs.length === 0)
ProviderNoJobs ==
    /\ pc = "searching"
    /\ upstream.kind = "http"
    /\ IsOk(upstream.status)
    /\ upstream.body # NotJson
    /\ JobsOf(upstream.body) = <<>>
    /\ jobs' = JobsOf(upstream.body)
    /\ Respond(JobsResponse(<<>>))
    /\ UNCHANGED <<body, envKey, upstream, searchCalls, tasks, lookupCalls>>
    /\ UNCHANGED untouched

\* trimmedJobs.map(async (job) => ...): every callback runs to its first
\* await, which starts the lookups of the retained listings in index order
FanOut ==
    /\ pc = "searching"
    /\ upstream.kind = "http"
    /\ IsOk(upstream.status)
    /\ upstream.body # NotJson
    /\ JobsOf(upstream.body) # <<>>
    /\ jobs' = JobsOf(upstream.body)
    /\ LET trimmedJobs == TrimmedJobs(jobs')
       IN  /\ tasks' = [i \in 1..Len(trimmedJobs) |->
                           StartTask(trimmedJobs[i], i, ensureString(body.jobProfile))]
           /\ lookupCalls' = lookupCalls \o StartedLookups(trimmedJobs, 1)
    /\ pc' = "enriching"
    /\ UNCHANGED <<body, envKey, upstream, searchCalls, response>>
    /\ UNCHANGED untouched

\* the lookup of the listing at index i completes with the directory's
\* answer; the callback resumes and fulfils its promise
SettleLookup(i, answer, outcome) ==
    /\ pc = "enriching"
    /\ i \in 1..Len(tasks)
    /\ tasks[i].state = "awaiting"
    /\ tasks' = [tasks EXCEPT ![i] =
                    [state |-> "fulfilled", lookup |-> outcome,
                     value |-> Enriched(TrimmedJobs(jobs)[i], i,
                                        ensureString(body.jobProfile),
                                        fetchCompanyInsight(answer))]]
    /\ UNCHANGED <<body, envKey, upstream, pc, searchCalls, jobs, lookupCalls,
                   response>>
    /\ UNCHANGED untouched

LookupMayFail == FailedLookups(tasks) < MaxLookupFailures

\* fetch rejects (network failure)
LookupUnreachable(i) ==
    /\ LookupMayFail
    /\ SettleLookup(i, [kind |-> "unreachable"], "failed")

\* a status that is not 2xx
LookupNotOk(i) ==
    /\ LookupMayFail
    /\ SettleLookup(i, [kind |-> "http", ok |-> IsOk(503), body |-> NotJson], "failed")

\* a 2xx answer whose body is not JSON, or is JSON but not an array
LookupMalformed(i) ==
    /\ LookupMayFail
    /\ \E b \in {NotJson, [t |-> "object"]} :
          SettleLookup(i, [kind |-> "http", ok |-> TRUE, body |-> b], "failed")

\* a 2xx answer with an empty list of matches
LookupEmpty(i) ==
    /\ LookupMayFail
    /\ SettleLookup(i, [kind |-> "http", ok |-> TRUE, body |-> Array(<<>>)], "failed")

\* a 2xx answer with matches: the directory returns one suggestion for the
\* company of a listing at an even index, two for one at an odd index
LookupMatched(i) ==
    SettleLookup(i,
        [kind |-> "http", ok |-> TRUE,
         body |-> Array(Suggestions(CompanyName(TrimmedJobs(jobs)[i]).v, 1 + (i % 2)))],
        "matched")

LookupSettles(i) ==
    \/ LookupUnreachable(i)
    \/ LookupNotOk(i)
    \/ LookupMalformed(i)
    \/ LookupEmpty(i)
    \/ LookupMatched(i)

\* await Promise.all(...) resumes: return NextResponse.json({jobs: enrichedJobs})
ReturnJobs ==
    /\ pc = "enriching"
    /\ AllFulfilled(tasks)
    /\ Respond(JobsResponse(AllValues(tasks)))
    /\ UNCHANGED <<body, envKey, upstream, searchCalls, jobs, tasks, lookupCalls>>
    /\ UNCHANGED untouched

HandlerStep ==
    \/ BodyUnparsable
    \/ MissingJobProfile
    \/ MissingLocation
    \/ MissingKey
    \/ CallProvider
    \/ ProviderUnreachable
    \/ ProviderNotOk
    \/ ProviderBodyUnparsable
    \/ ProviderNoJobs
    \/ FanOut
    \/ ReturnJobs

Next ==
    \/ HandlerStep
    \/ \E i \in 1..MaxJobs : LookupSettles(i)

\* the form as mounted: useState(false), useState(null), useState([])
InitFormIdle ==
    /\ floading = FALSE
    /\ ferror = Null
    /\ fresults = Array(<<>>)
    /\ fdisabled = FALSE
    /\ frequests = <<>>

\* formatPosted is not being applied
InitPostedIdle ==
    /\ pjob = PostedJob(Undefined, Undefined, Undefined)
    /\ pdate = Instant(0, 0)
    /\ pnow = Instant(0, 0)
    /\ ptz = 0
    /\ pout = Pending

InitIdle ==
    /\ cjob = EmptyJob
    /\ contacts = Pending
    /\ sjob = EmptyJob
    /\ sout = Pending
    /\ sprev = Pending
    /\ InitPostedIdle
    /\ InitFormIdle

InitHandler(bodies, answers) ==
    /\ body \in bodies
    /\ envKey \in EnvKeys
    /\ upstream \in answers
    /\ pc = "received"
    /\ searchCalls = <<>>
    /\ jobs = <<>>
    /\ tasks = <<>>
    /\ lookupCalls = <<>>
    /\ response = NoResponse

\* every request shape, against provider lists of up to MaxShortListings
Init ==
    /\ InitHandler(Bodies, ProviderAnswers(MaxShortListings))
    /\ InitIdle

Spec == Init /\ [][Next]_vars

\* one request of each kind, against provider lists of up to MaxListings
InitFanOut ==
    /\ InitHandler(CoreBodies, ProviderAnswers(MaxListings))
    /\ envKey = Undefined
    /\ InitIdle

SpecFanOut == InitFanOut /\ [][Next]_vars

\* one lookup, of the listing at index HungLookup, may never resolve: every
\* step of the handler and every other lookup is eventually taken
SpecHang ==
    /\ Init
    /\ [][Next]_vars
    /\ WF_vars(HandlerStep)
    /\ \A i \in (1..MaxJobs) \ {HungLookup} : WF_vars(LookupSettles(i))

(***************************************************************************)
(* extractContacts and formatSalary applied to one raw listing.            *)
(***************************************************************************)
InitNoRequest ==
    /\ body = UnparsableBody
    /\ envKey = Undefined
    /\ upstream = [kind |-> "unreachable"]
    /\ pc = "idle"
    /\ searchCalls = <<>>
    /\ jobs = <<>>
    /\ tasks = <<>>
    /\ lookupCalls = <<>>
    /\ response = NoResponse

InitContacts ==
    /\ InitNoRequest
    /\ cjob \in ContactJobs
    /\ contacts = Pending
    /\ sjob = EmptyJob
    /\ sout = Pending
    /\ sprev = Pending
    /\ InitPostedIdle
    /\ InitFormIdle

\* const contacts = extractContacts(job)
ExtractContacts ==
    /\ contacts = Pending
    /\ contacts' = Array(extractContacts(cjob))
    /\ UNCHANGED <<cjob, sjob, sout, sprev>>
    /\ UNCHANGED postedVars
    /\ UNCHANGED formVars
    /\ UNCHANGED handlerVars

NextContacts == ExtractContacts

SpecContacts == InitContacts /\ [][NextContacts]_vars

InitSalary ==
    /\ InitNoRequest
    /\ cjob = EmptyJob
    /\ contacts = Pending
    /\ sjob \in SalaryJobs
    /\ sout = Pending
    /\ sprev = Pending
    /\ InitPostedIdle
    /\ InitFormIdle

\* salary: formatSalary(job)
FormatSalary ==
    /\ sout = Pending
    /\ sout' = formatSalary(sjob)
    /\ UNCHANGED <<sjob, sprev, cjob, contacts>>
    /\ UNCHANGED postedVars
    /\ UNCHANGED formVars
    /\ UNCHANGED handlerVars

\* the provider sends the same amounts and period under the alternate field
\* names; the result for the primary names is kept for comparison
SwitchFieldNames ==
    /\ sout # Pending
    /\ sprev = Pending
    /\ PrimaryNamesOnly(sjob.job_salary)
    /\ sprev' = sout
    /\ sjob' = [sjob EXCEPT !.job_salary = UnderAlternateNames(@)]
    /\ sout' = Pending
    /\ UNCHANGED <<cjob, contacts>>
    /\ UNCHANGED postedVars
    /\ UNCHANGED formVars
    /\ UNCHANGED handlerVars

NextSalary ==
    \/ FormatSalary
    \/ SwitchFieldNames

SpecSalary == InitSalary /\ [][NextSalary]_vars

(***************************************************************************)
(* formatPosted applied to one raw listing.                                *)
(***************************************************************************)
InitPosted ==
    /\ InitNoRequest
    /\ cjob = EmptyJob
    /\ contacts = Pending
    /\ sjob = EmptyJob
    /\ sout = Pending
    /\ sprev = Pending
    /\ pnow \in Nows
    /\ ptz \in TimeZoneOffsets
    /\ \E minutes \in AgesInMinutes : pdate = PostedBefore(pnow, minutes)
    /\ \E datetime \in DatetimeFields(pdate), postedAt \in PostedAtFields(pdate),
          timestamp \in TimestampFields(pdate) :
          pjob = PostedJob(datetime, postedAt, timestamp)
    /\ pout = Pending
    /\ InitFormIdle

\* postedAt: formatPosted(job)
FormatPosted ==
    /\ pout = Pending
    /\ pout' = formatPosted(pjob, pnow, ptz)
    /\ UNCHANGED <<pjob, pdate, pnow, ptz>>
    /\ UNCHANGED <<cjob, contacts, sjob, sout, sprev>>
    /\ UNCHANGED formVars
    /\ UNCHANGED handlerVars

NextPosted == FormatPosted

SpecPosted == InitPosted /\ [][NextPosted]_vars

(***************************************************************************)
(* The search form (JobSearchAgent, unnamed/part_000): handleSubmit and    *)
(* the submit button.  An invocation of handleSubmit is "fetching" until   *)
(* its fetch settles, "reading" while it awaits response.json(), and       *)
(* "settled" once its finally block has run.                               *)
(***************************************************************************)
TxtFailedToFetch == <<"Failed to fetch">>
TxtUnableToFetch == <<"Unable to fetch hiring data.">>
TxtNotJson == <<"Unexpected token < in JSON">>
TxtLocationRequired == <<"location is required">>

\* what /api/search answers: a success with listings (none or one), an
\* error status with an error message, with none, or with a body that is
\* not JSON, and a success status with a body that is not JSON
SearchAnswers ==
    {[ok |-> TRUE, body |-> [t |-> "object", jobs |-> Array(<<>>)]],
     [ok |-> TRUE, body |-> [t |-> "object", jobs |-> Array(<<"job-1">>)]],
     [ok |-> TRUE, body |-> NotJson],
     [ok |-> FALSE, body |-> [t |-> "object", error |-> Str(TxtLocationRequired)]],
     [ok |-> FALSE, body |-> [t |-> "object", error |-> Undefined]],
     [ok |-> FALSE, body |-> NotJson]}

\* mutant: the submit button is never disabled
SubmitDisabled_Never == FALSE

\* <button type="submit" disabled={loading}>: the only submit button of the
\* form, so that no submit event is fired while it is rendered disabled
SubmitDisabled == fdisabled

\* the end of an invocation: setResults or the catch block's setError, then
\* finally { setLoading(false) }
Settle(i, error, results) ==
    /\ frequests' = [frequests EXCEPT ![i].state = "settled"]
    /\ ferror' = IF error = Undefined THEN ferror ELSE error
    /\ fresults' = IF results = Undefined THEN fresults ELSE results
    /\ floading' = FALSE
    /\ UNCHANGED fdisabled

formUntouched ==
    <<body, envKey, upstream, pc, searchCalls, jobs, tasks, lookupCalls,
      response, cjob, contacts, sjob, sout, sprev, pjob, pdate, pnow, ptz,
      pout>>

\* the user submits the form: handleSubmit runs to its await fetch(...),
\* and React renders the state it set before the next event is handled
Submit ==
    /\ ~SubmitDisabled
    /\ Len(frequests) < MaxSubmissions
    /\ floading' = TRUE
    /\ ferror' = Null
    /\ frequests' = Append(frequests, [state |-> "fetching", answer |-> Undefined])
    /\ fdisabled' = floading'
    /\ UNCHANGED fresults
    /\ UNCHANGED formUntouched

\* fetch rejects (the network failed): catch, finally
FetchRejects(i) ==
    /\ i <= Len(frequests)
    /\ frequests[i].state = "fetching"
    /\ Settle(i, Str(TxtFailedToFetch), Undefined)
    /\ UNCHANGED formUntouched

\* fetch resolves with the response: handleSubmit goes on to await
\* response.json() (behind .catch(() => null) when the status is an error)
FetchResolves(i) ==
    /\ i <= Len(frequests)
    /\ frequests[i].state = "fetching"
    /\ \E answer \in SearchAnswers :
          frequests' = [frequests EXCEPT ![i] = [state |-> "reading", answer |-> answer]]
    /\ UNCHANGED <<floading, ferror, fresults, fdisabled>>
    /\ UNCHANGED formUntouched

\* response.json() settles: setResults(data.jobs), or the error is thrown
\* and caught; finally
BodyRead(i) ==
    /\ i <= Len(frequests)
    /\ frequests[i].state = "reading"
    /\ LET answer == frequests[i].answer
           detail == IF answer.body = NotJson THEN Null ELSE answer.body
       IN  IF ~answer.ok
           THEN Settle(i, Coalesce(IF detail = Null THEN Undefined ELSE detail.error,
                                   Str(TxtUnableToFetch)),
                       Undefined)
           ELSE IF answer.body = NotJson
           THEN Settle(i, Str(TxtNotJson), Undefined)
           ELSE Settle(i, Undefined, answer.body.jobs)
    /\ UNCHANGED formUntouched

\* React renders the state set by an invocation that has ended
Render ==
    /\ fdisabled # floading
    /\ fdisabled' = floading
    /\ UNCHANGED <<floading, ferror, fresults, frequests>>
    /\ UNCHANGED formUntouched

NextForm ==
    \/ Submit
    \/ \E i \in 1..MaxSubmissions : FetchRejects(i)
    \/ \E i \in 1..MaxSubmissions : FetchResolves(i)
    \/ \E i \in 1..MaxSubmissions : BodyRead(i)
    \/ Render

InitForm ==
    /\ InitNoRequest
    /\ cjob = EmptyJob
    /\ contacts = Pending
    /\ sjob = EmptyJob
    /\ sout = Pending
    /\ sprev = Pending
    /\ InitPostedIdle
    /\ InitFormIdle

SpecForm == InitForm /\ [][NextForm]_vars

(***************************************************************************)
(* The properties.                                                         *)
(***************************************************************************)
\* the request has been answered
Answered == pc = "done"

\* the listings the provider returned for this request (none when it did
\* not answer 200 with a list under data)
ProviderList ==
    IF /\ upstream.kind = "http"
       /\ upstream.body # NotJson
       /\ upstream.body.data.t = "array"
    THEN upstream.body.data.v
    ELSE <<>>

\* the trimmed employer name of a raw listing, or <<>> when it has none
TrimmedEmployerName(raw) ==
    IF raw.employer_name.t = "string" THEN Trim(raw.employer_name.v) ELSE <<>>

\* the enriched listing out is the one made of the raw listing raw
DerivedFrom(out, raw) ==
    /\ raw.job_id # Undefined => out.id = raw.job_id
    /\ out.company =
           IF TrimmedEmployerName(raw) = <<>>
           THEN TxtUnknownCompany
           ELSE TrimmedEmployerName(raw)
    /\ raw.job_title # Undefined => out.title = raw.job_title

\* C1: a success response to a provider list of n >= 1 listings holds
\* exactly min(n, 12) enriched listings, and the listing at position i is
\* made of the raw listing at position i, in whatever order the lookups
\* completed.
C1_TruncatedInOrder ==
    (Answered /\ response.status = 200 /\ Len(ProviderList) >= 1) =>
        /\ Len(response.jobs) = Min(Len(ProviderList), 12)
        /\ \A i \in 1..Len(response.jobs) :
              DerivedFrom(response.jobs[i], ProviderList[i])

\* a list longer than 12, all of whose retained listings had a lookup, one
\* of which failed, has been answered with 12 listings
C1_Witness ==
    /\ Answered
    /\ response.status = 200
    /\ Len(ProviderList) > 12
    /\ Len(response.jobs) = 12
    /\ Len(lookupCalls) = 12
    /\ \E i \in 1..12 : response.jobs[i].companyInsight = Undefined

HungLookupResolved ==
    HungLookup > Len(tasks) \/ tasks[HungLookup].state = "fulfilled"

InsightOfOwnCompany(insight, raw) ==
    /\ insight.t = "object"
    /\ insight.name = Str(TrimmedEmployerName(raw))
    /\ insight.domain = Str(toLowerCase(TrimmedEmployerName(raw)) \o <<".", "c", "o", "m">>)
    /\ insight.twitter = Str(<<"https://twitter.com/">> \o TrimmedEmployerName(raw))

\* C3: when the lookup of a retained listing fails, that listing is
\* returned with no companyInsight, the request succeeds, and every other
\* listing has the companyInsight its own lookup gave (none when that one
\* failed too or was not made).
C3_LookupFailureIsolated ==
    \A i \in 1..Len(tasks) :
        tasks[i].lookup = "failed" =>
            /\ tasks[i].state = "fulfilled"
            /\ tasks[i].value.companyInsight = Undefined
            /\ Answered =>
                  /\ response.status = 200
                  /\ Len(response.jobs) = Len(tasks)
                  /\ DerivedFrom(response.jobs[i], ProviderList[i])
                  /\ response.jobs[i].companyInsight = Undefined
                  /\ \A j \in (1..Len(tasks)) \ {i} :
                        IF tasks[j].lookup = "matched"
                        THEN InsightOfOwnCompany(response.jobs[j].companyInsight,
                                                 ProviderList[j])
                        ELSE response.jobs[j].companyInsight = Undefined

\* a response in which one listing's lookup failed and another's matched
C3_Witness ==
    /\ Answered
    /\ response.status = 200
    /\ \E i, j \in 1..Len(tasks) :
          /\ tasks[i].lookup = "failed"
          /\ tasks[j].lookup = "matched"
          /\ response.jobs[i].companyInsight = Undefined
          /\ response.jobs[j].companyInsight # Undefined

\* a request field that is missing, or blank once trimmed
MissingOrBlank(field) ==
    \/ field = Undefined
    \/ field.t = "string" /\ \A k \in 1..Len(field.v) : field.v[k] \in Whitespace

\* C4: a request whose jobProfile or location is missing or blank is
\* answered with status 400, and neither the search provider nor the
\* company lookup is called for it.
C4_MissingFieldRejected ==
    (body.parse = "ok"
        /\ (MissingOrBlank(body.jobProfile) \/ MissingOrBlank(body.location))) =>
        /\ searchCalls = <<>>
        /\ lookupCalls = <<>>
        /\ pc \in {"received", "done"}
        /\ Answered => response.status = 400

\* a request with a job profile and a key but a blank location was rejected
C4_Witness ==
    /\ Answered
    /\ body.parse = "ok"
    /\ ~MissingOrBlank(body.jobProfile)
    /\ body.jobProfile.t = "string"
    /\ body.location = Str(<<" ">>)
    /\ ~MissingOrBlank(body.rapidApiKey)
    /\ response.status = 400

\* the request passes the jobProfile and location checks
FieldsValid ==
    /\ body.parse = "ok"
    /\ body.jobProfile.t = "string" /\ ~MissingOrBlank(body.jobProfile)
    /\ body.location.t = "string" /\ ~MissingOrBlank(body.location)

\* C5: a request with valid jobProfile and location is answered 401 with
\* no provider call exactly when the inline key and RAPIDAPI_KEY are both
\* missing or blank; a non-blank inline key (trimmed) is the one sent to the
\* provider, otherwise the (trimmed) process-wide key.
C5_KeyResolution ==
    (FieldsValid /\ pc # "received") =>
        /\ (MissingOrBlank(body.rapidApiKey) /\ MissingOrBlank(envKey))
               <=> (Answered /\ response.status = 401 /\ searchCalls = <<>>)
        /\ ~MissingOrBlank(body.rapidApiKey) =>
               searchCalls = <<[key |-> Trim(body.rapidApiKey.v)]>>
        /\ (MissingOrBlank(body.rapidApiKey) /\ ~MissingOrBlank(envKey)) =>
               searchCalls = <<[key |-> Trim(envKey.v)]>>

\* the provider was called with the process-wide key because the inline key
\* was blank
C5_Witness ==
    /\ FieldsValid
    /\ body.rapidApiKey = Str(<<" ">>)
    /\ searchCalls = <<[key |-> <<"k", "2">>]>>

\* C6: when the provider answers with a status that is not a success, the
\* response has that status and, when the provider's body carries a message,
\* that message as its error; the provider was called once and no company
\* lookup was started.
C6_ProviderFailureForwarded ==
    /\ Len(searchCalls) <= 1
    /\ (Answered /\ Len(searchCalls) = 1 /\ upstream.kind = "http"
            /\ ~(upstream.status \in 200..299)) =>
          /\ response.status = upstream.status
          /\ (upstream.body # NotJson /\ upstream.body.message.t = "string") =>
                response.error = upstream.body.message
          /\ lookupCalls = <<>>
          /\ tasks = <<>>

\* a 429 with the message "quota" was forwarded
C6_Witness ==
    /\ Answered
    /\ Len(searchCalls) = 1
    /\ upstream.kind = "http"
    /\ upstream.status = 429
    /\ upstream.body # NotJson
    /\ response = [status |-> 429, error |-> Str(<<"q", "u", "o", "t", "a">>)]

\* the provider answered 200 with a JSON body that has no listing
ProviderHasNoListing ==
    /\ upstream.kind = "http"
    /\ upstream.status = 200
    /\ upstream.body # NotJson
    /\ ProviderList = <<>>

\* C7: when the provider succeeds with zero listings, or with a payload
\* whose data is not a list, the response is a success with an empty jobs
\* list and no company lookup is made.
C7_NoListingsNoLookups ==
    (ProviderHasNoListing /\ Len(searchCalls) = 1) =>
        /\ lookupCalls = <<>>
        /\ tasks = <<>>
        /\ Answered => response = [status |-> 200, jobs |-> <<>>]

\* a payload whose data is a string was answered with an empty jobs list
C7_Witness ==
    /\ Answered
    /\ Len(searchCalls) = 1
    /\ ProviderHasNoListing
    /\ upstream.body.data.t = "string"
    /\ response = [status |-> 200, jobs |-> <<>>]

IsEmailContact(c) == c.label \in {"HR email", "Contact email"}

\* the number of email candidates among the returned contacts
EmailCount(list) == Cardinality({i \in 1..Len(list) : IsEmailContact(list[i])})

\* two contacts have the same dedup key
SameDedupKey(c, d) ==
    \/ IsEmailContact(c) /\ IsEmailContact(d)
          /\ toLowerCase(c.value) = toLowerCase(d.value)
    \/ c.label = "Phone" /\ d.label = "Phone"
          /\ Trim(CollapseSpaces(c.value)) = Trim(CollapseSpaces(d.value))
    \/ c.label = "Company website" /\ d.label = "Company website"

\* C8: the contacts extractContacts returns hold no two candidates with the
\* same dedup key: no two emails equal ignoring case, no two phones with
\* the same normalized text, at most one website.
C8_NoDuplicateContacts ==
    contacts # Pending =>
        \A i, j \in 1..Len(contacts.v) :
            i # j => ~SameDedupKey(contacts.v[i], contacts.v[j])

\* a listing that names one address twice, in different case, and one phone
\* twice, with different spacing, gave one email, one phone and the website
C8_Witness ==
    /\ contacts # Pending
    /\ cjob.job_description.t = "string"
    /\ Len(CollectEmails(cjob)) = 2
    /\ Len(PhoneMatches(cjob.job_description.v, 1)) = 2
    /\ EmailCount(contacts.v) = 1
    /\ Cardinality({i \in 1..Len(contacts.v) : contacts.v[i].label = "Phone"}) = 1
    /\ Len(contacts.v) = 3

\* the description holds no email-shaped substring
NoEmailInDescription(job) ==
    job.job_description.t # "string"
        \/ EmailMatches(job.job_description.v, 1) = <<>>

\* the returned contacts hold exactly one email candidate, with this value
OnlyEmailIs(list, value) ==
    /\ EmailCount(list) = 1
    /\ \A i \in 1..Len(list) : IsEmailContact(list[i]) => list[i].value = value

\* C9 as claimed: a listing with an employer-email field and no address in
\* its description gets exactly one email candidate, the field lowercased.
C9_OnlyEmployerEmail ==
    (contacts # Pending /\ cjob.employer_email.t = "string"
        /\ NoEmailInDescription(cjob)) =>
        OnlyEmailIs(contacts.v, toLowerCase(cjob.employer_email.v))

\* the apply link is a mailto: link
IsMailto(link) ==
    link.t = "string" /\ startsWith(Trim(link.v), TxtMailto)

\* C9 as amended: a listing whose employer-email field contains an "@",
\* whose apply link is not a mailto: link to another address, and whose
\* description holds no address gets exactly one email candidate, the
\* field trimmed and lowercased.
C9_OnlyEmployerEmailTrimmed ==
    (contacts # Pending /\ cjob.employer_email.t = "string"
        /\ includes(cjob.employer_email.v, <<"@">>)
        /\ (IsMailto(cjob.job_apply_link) =>
               toLowerCase(sliceFrom(Trim(cjob.job_apply_link.v), 7))
                   = toLowerCase(Trim(cjob.employer_email.v)))
        /\ NoEmailInDescription(cjob)) =>
        OnlyEmailIs(contacts.v, toLowerCase(Trim(cjob.employer_email.v)))

\* a padded, capitalised employer email and a mailto: link to the same
\* address gave the one candidate hr@x.io
C9_Witness ==
    /\ contacts # Pending
    /\ cjob.employer_email = Str(<<" ", "H", "R", "@", "x", ".", "i", "o", " ">>)
    /\ IsMailto(cjob.job_apply_link)
    /\ NoEmailInDescription(cjob)
    /\ OnlyEmailIs(contacts.v, <<"h", "r", "@", "x", ".", "i", "o">>)

\* C10: formatSalary gives the same result for a salary record that carries
\* its amounts and period under the primary names only and for the record
\* that carries the same values under the alternate names only.
C10_FieldNamesEquivalent ==
    (sprev # Pending /\ sout # Pending) => sout = sprev

\* a minimum, a maximum and a period formatted to a text under both namings
C10_Witness ==
    /\ sprev # Pending
    /\ sout = sprev
    /\ sout.t = "string"
    /\ sjob.job_salary.min_salary = Num(45000)
    /\ sjob.job_salary.max_salary = Num(1250000)
    /\ sjob.job_salary.period = Str(<<"Y", "E", "A", "R">>)
    /\ sjob.job_salary.salary_period = Undefined

\* the text field holds a date
HoldsDate(field) == field.t = "string" /\ IsValidDate(ParseDate(Trim(field.v)))

\* the listing carries its posting date where formatPosted reads it first
\* (the ISO datetime field) or last (the epoch seconds), and no other date
CarriesPostingDate ==
    /\ \/ pjob.job_posted_at_datetime_utc \in ValidDatetimeFields(pdate)
       \/ pjob.job_posted_at_timestamp = Num(EpochSeconds(pdate))
    /\ HoldsDate(pjob.job_posted_at) =>
          ParseDate(Trim(pjob.job_posted_at.v)) = pdate

\* the whole days from the posting to the current instant
WholeDaysAgo == DiffMs(pnow, pdate) \div MsPerDay

IsHourMessage(out) ==
    \/ out = Str(TxtLessThanAnHour)
    \/ \E n \in 0..23 : out = Str(TxtPosted \o Digits(n) \o TxtHoursAgo)

\* a day of the month, a short month name and a year
IsCalendarDate(out) ==
    /\ out.t = "string"
    /\ \E d \in 1..31, m \in 1..12, y \in 2023..2027 :
          out.v = Digits(d) \o <<" ">> \o MonthNames[m] \o <<" ">> \o Digits(y)

\* C11: for a posting date d whole days before the current instant,
\* formatPosted returns an hour-granularity message when d < 1, "Posted
\* yesterday" when d = 1, "Posted <d> days ago" when 2 <= d <= 6 and a
\* calendar date when d >= 7; 30 minutes gives "Posted less than an hour
\* ago", 2 days "Posted 2 days ago" and 10 days a calendar date.
C11_AgeByWholeDays ==
    (pout # Pending /\ CarriesPostingDate) =>
        /\ WholeDaysAgo < 1 => IsHourMessage(pout)
        /\ WholeDaysAgo = 1 => pout = Str(TxtYesterday)
        /\ WholeDaysAgo \in 2..6 =>
              pout = Str(TxtPosted \o Digits(WholeDaysAgo) \o TxtDaysAgo)
        /\ WholeDaysAgo >= 7 => IsCalendarDate(pout)
        /\ DiffMs(pnow, pdate) = 30 * MsPerMinute => pout = Str(TxtLessThanAnHour)
        /\ DiffMs(pnow, pdate) = 2 * MsPerDay =>
              pout = Str(TxtPosted \o <<"2">> \o TxtDaysAgo)
        /\ DiffMs(pnow, pdate) = 10 * MsPerDay => IsCalendarDate(pout)

\* a listing posted 10 days before 2026-11-05T10:15Z, carrying the date in
\* epoch seconds only, is shown with the date 26 Oct 2026
C11_Witness ==
    /\ pnow = Instant(DaysFromCivil(2026, 11, 5), 10 * MsPerHour + 15 * MsPerMinute)
    /\ DiffMs(pnow, pdate) = 10 * MsPerDay
    /\ pjob.job_posted_at_datetime_utc = Str(TxtSoon)
    /\ pjob.job_posted_at_timestamp.t = "number"
    /\ pout = Str(<<"2", "6", " ", "O", "c", "t", " ", "2", "0", "2", "6">>)

\* the fetchCompanyInsight calls made for the retained listing at index i
LookupsOf(i) == {k \in 1..Len(lookupCalls) : lookupCalls[k].listing = i}

\* the listing at index i was returned as one of an unknown company
ReturnedAsUnknown(i) ==
    Answered =>
        /\ response.jobs[i].company = TxtUnknownCompany
        /\ response.jobs[i].companyInsight = Undefined

\* exactly one lookup was made for the listing at index i, with its
\* trimmed employer name
LookedUpOnce(i) ==
    /\ Cardinality(LookupsOf(i)) = 1
    /\ \A k \in LookupsOf(i) : lookupCalls[k].name = TrimmedEmployerName(jobs[i])

\* C12 as claimed: no lookup is made with the name "Unknown company"; a
\* retained listing whose employer name is missing or blank has no lookup
\* and is returned with company "Unknown company" and no insight; every
\* other retained listing has exactly one lookup, with its trimmed name.
C12_LookupIffEmployerNamed ==
    (pc \in {"enriching", "done"} /\ Len(tasks) > 0) =>
        /\ \A k \in 1..Len(lookupCalls) : lookupCalls[k].name # TxtUnknownCompany
        /\ \A i \in 1..Len(tasks) :
              IF TrimmedEmployerName(jobs[i]) = <<>>
              THEN LookupsOf(i) = {} /\ ReturnedAsUnknown(i)
              ELSE LookedUpOnce(i)

\* C12 as amended: a retained listing whose trimmed employer name is the
\* text "Unknown company" itself is treated as one without a name (no
\* lookup, no insight); every retained listing with any other non-blank
\* name has exactly one lookup, with its trimmed name.
C12_LookupIffNotSentinel ==
    (pc \in {"enriching", "done"} /\ Len(tasks) > 0) =>
        /\ \A k \in 1..Len(lookupCalls) : lookupCalls[k].name # TxtUnknownCompany
        /\ \A i \in 1..Len(tasks) :
              IF TrimmedEmployerName(jobs[i]) \in {<<>>, TxtUnknownCompany}
              THEN LookupsOf(i) = {} /\ ReturnedAsUnknown(i)
              ELSE LookedUpOnce(i)

\* a list with a listing without a name, one with a blank name, one named
\* "Unknown company" and named ones has been answered
C12_Witness ==
    /\ Answered
    /\ response.status = 200
    /\ \E i, j, k, l \in 1..Len(tasks) :
          /\ jobs[i].employer_name = Undefined
          /\ jobs[j].employer_name = Str(<<" ", " ">>)
          /\ jobs[k].employer_name = Str(TxtUnknownCompany)
          /\ LookupsOf(k) = {}
          /\ response.jobs[k].companyInsight = Undefined
          /\ Cardinality(LookupsOf(l)) = 1
          /\ response.jobs[l].companyInsight # Undefined

\* C13: in one request at most one call is made to the search provider and
\* at most 12 to the company directory, at most one of them per retained
\* listing, whatever the length of the provider's list.
C13_CallVolumeBounded ==
    /\ Len(searchCalls) <= 1
    /\ Len(lookupCalls) <= 12
    /\ \A k \in 1..Len(lookupCalls) :
          /\ lookupCalls[k].listing \in 1..Min(Len(ProviderList), 12)
          /\ \A l \in 1..Len(lookupCalls) :
                lookupCalls[k].listing = lookupCalls[l].listing => k = l

\* the provider returned 13 or more named listings: one search call and 12 lookups,
\* of the first 12 listings, have been made and the request answered
C13_Witness ==
    /\ Answered
    /\ Len(ProviderList) >= 13
    /\ Len(searchCalls) = 1
    /\ Len(lookupCalls) = 12
    /\ \A i \in 1..12 : \E k \in 1..12 : lookupCalls[k].listing = i

\* the amounts, period and currency formatSalary resolves from the record
ResolvedMin == Coalesce(sjob.job_salary.salary_min, sjob.job_salary.min_salary)
ResolvedMax == Coalesce(sjob.job_salary.salary_max, sjob.job_salary.max_salary)
ResolvedPeriod == Coalesce(sjob.job_salary.salary_period, sjob.job_salary.period)
ResolvedCurrency == Coalesce(sjob.job_salary.currency, Str(<<"I", "N", "R">>))

\* formatSalary has been applied to a salary record whose currency code the
\* formatter accepts
SalaryFormatted ==
    /\ sout # Pending
    /\ sjob.job_salary.t = "object"
    /\ IsWellFormedCurrencyCode(ResolvedCurrency)

SingleValueText(amount) ==
    Str(FormatCurrency(ResolvedCurrency.v, amount) \o PeriodSuffix(ResolvedPeriod))

\* C14: formatSalary returns no salary exactly when neither the resolved
\* minimum nor the resolved maximum is a truthy number; when exactly one of
\* them is truthy (the other absent or zero), the result is that value
\* formatted, with the period suffix if a period is resolved.
C14_AbsentIffNeitherTruthy ==
    SalaryFormatted =>
        /\ sout = Undefined <=> (~Truthy(ResolvedMin) /\ ~Truthy(ResolvedMax))
        /\ (Truthy(ResolvedMin) /\ ~Truthy(ResolvedMax)) =>
              sout = SingleValueText(ResolvedMin)
        /\ (~Truthy(ResolvedMin) /\ Truthy(ResolvedMax)) =>
              sout = SingleValueText(ResolvedMax)

\* the date of the first of the three fields, in the order ISO datetime,
\* posted-at text, epoch seconds, that holds a valid date; Undefined if none
FirstValidDate ==
    IF HoldsDate(pjob.job_posted_at_datetime_utc)
    THEN ParseDate(Trim(pjob.job_posted_at_datetime_utc.v))
    ELSE IF HoldsDate(pjob.job_posted_at)
    THEN ParseDate(Trim(pjob.job_posted_at.v))
    ELSE IF pjob.job_posted_at_timestamp.t = "number"
    THEN FromEpochSeconds(pjob.job_posted_at_timestamp.v)
    ELSE Undefined

\* C15: formatPosted takes the posting date from the ISO datetime field,
\* then the posted-at text, then the epoch seconds, in that precedence, and
\* returns no posting age only if none of the three holds a valid date: if
\* at least one does, the posting age of the first such date is returned.
C15_FirstValidFieldDecides ==
    pout # Pending =>
        IF FirstValidDate = Undefined
        THEN pout = Undefined
        ELSE pout = PostedMessage(FirstValidDate, pnow, ptz)

\* C16: for a posting date less than a day before the current instant,
\* formatPosted returns "Posted less than an hour ago" if at most an hour
\* has elapsed, and otherwise "Posted <N>h ago" with N the whole hours
\* elapsed.
C16_HourMessageByElapsedTime ==
    (pout # Pending /\ CarriesPostingDate /\ WholeDaysAgo < 1) =>
        IF DiffMs(pnow, pdate) <= MsPerHour
        THEN pout = Str(TxtLessThanAnHour)
        ELSE pout = Str(TxtPosted \o Digits(DiffMs(pnow, pdate) \div MsPerHour)
                            \o TxtHoursAgo)

\* the field fails its check: it is no string, or a blank one
FailsCheck(field) == field.t # "string" \/ MissingOrBlank(field)

\* the response is the error of the given status and message
Rejected(status, message) ==
    /\ response = [status |-> status, error |-> Str(<<message>>)]
    /\ searchCalls = <<>>
    /\ lookupCalls = <<>>

\* the response a parsed request has got is the one of its first failing
\* check, in the order jobProfile, location, credential, provider status
FirstFailingCheckDecides ==
    (Answered /\ body.parse = "ok") =>
        IF FailsCheck(body.jobProfile)
        THEN Rejected(400, "jobProfile is required")
        ELSE IF FailsCheck(body.location)
        THEN Rejected(400, "location is required")
        ELSE IF FailsCheck(body.rapidApiKey) /\ FailsCheck(envKey)
        THEN Rejected(401,
                 "RapidAPI key missing. Provide it in the request or configure RAPIDAPI_KEY.")
        ELSE /\ Len(searchCalls) = 1
             /\ (upstream.kind = "http" /\ upstream.status \notin 200..299) =>
                   response.status = upstream.status /\ lookupCalls = <<>>
             /\ (response.status = 200 /\ response.jobs # <<>>) =>
                   upstream.kind = "http" /\ upstream.status \in 200..299

\* C17: the handler applies its checks in the order jobProfile, location,
\* credential, provider status, and the first failing check alone decides
\* the single response: a request missing both jobProfile and a credential
\* gets 400, and listings are returned only after the three input checks
\* passed and exactly one provider call returned a success status.
C17_ChecksInOrder ==
    /\ [](FirstFailingCheckDecides)
    /\ [][response # NoResponse => response' = response]_vars

\* a request with neither a jobProfile nor any credential has been answered
\* 400, with no call made
C17_Witness ==
    /\ Answered
    /\ body.parse = "ok"
    /\ body.jobProfile = Undefined
    /\ body.rapidApiKey = Undefined
    /\ envKey = Undefined
    /\ response.status = 400
    /\ searchCalls = <<>>

\* the invocations of handleSubmit whose request is still in flight
InFlight == {i \in 1..Len(frequests) : frequests[i].state # "settled"}

====
